---- MODULE Spec2Model ----
(***************************************************************************)
(* The license gate and the rate limiter of the ORB scanner API            *)
(* (src/api_server.py and src/app.py), as a state machine.                 *)
(*                                                                         *)
(* A request is handled by one thread of the Flask server.  The threads    *)
(* share the module-level dict request_counts and the wall clock; each     *)
(* thread's position in require_license / rate_limit_check / the view      *)
(* function is its pc.  The statements of rate_limit_check are separate    *)
(* steps, so that threads interleave between them (the code takes no lock).*)
(***************************************************************************)
EXTENDS Integers, FiniteSets, Sequences, TLC

\* ------------------------------------------------------------------ bounds

\* The source fixes RATE_LIMIT_REQUESTS = 100 and RATE_LIMIT_WINDOW = 60
\* (api_server.py:38-39, app.py:23-24).  The model keeps the two names and
\* scales the values; every statement below is stated in terms of the names.
RATE_LIMIT_REQUESTS == 2
RATE_LIMIT_WINDOW == 2
\* The clock runs over 0..MaxTime (one unit is one second of time.time()).
MaxTime == 3

Threads == {"t1", "t2"}

\* ------------------------------------------------------------- the routes

\* The value of request.headers.get('X-License-Key') when the header is absent.
None == "<None>"

\* Routes wrapped by @require_license (api_server.py; app.py has /api/gainers only).
ProtectedRoutes ==
    {"gainers", "losers", "historical", "float", "news", "volume", "app_gainers"}
\* Routes registered without the decorator.
OpenRoutes == {"health", "app_home", "app_test"}
Routes == ProtectedRoutes \cup OpenRoutes

\* The header values the model presents.
LicenseKeys == {None, "", "test-license-123", "prod-license-456", "bad-key"}
\* os.getenv('VALID_LICENSE_KEYS', 'test-license-123,prod-license-456').split(',')
DefaultKeys == {"test-license-123", "prod-license-456"}
\* The allow-lists the environment may configure: split(',') never yields an
\* empty list, and yields [''] for an empty variable.
AllowLists == (SUBSET {"", "test-license-123", "prod-license-456"}) \ {{}}

\* What the upstream provider does with one outbound call.
UpstreamOutcomes == {"ok", "ok_empty", "network_error", "http_error", "malformed"}
UpstreamFailures == {"network_error", "http_error", "malformed"}

VARIABLES
    VALID_LICENSE_KEYS,  \* the configured allow-list
    request_counts,      \* the module-level dict: license key -> [count, timestamp]
    now,                 \* time.time()
    th,                  \* per thread: the request it handles and where it is
    win                  \* observer: per key, the requests seen in the current window

vars == <<VALID_LICENSE_KEYS, request_counts, now, th, win>>

\* A thread with no request.  n, after_exhausted and found belong to the observer:
\* the request's number in its key's window, whether it opened a window after
\* an exhausted one, and the dict as the request found it.
Idle ==
    [pc |-> "idle", route |-> "-", license_key |-> None, valid |-> FALSE,
     current_time |-> 0, passed |-> <<>>, handled |-> FALSE, called |-> FALSE,
     upstream |-> "-", status |-> 0, body |-> "-", n |-> 0, after_exhausted |-> FALSE,
     found |-> <<>>]

NoWindow == [start |-> -1, n |-> 0, allowed |-> 0]

\* ---------------------------------------------------------- the license gate

\* Python's truth value of the header: None and '' are falsy.
Truthy(license_key) == license_key # None /\ license_key # ""

\* Variants of validate_license_key: without the emptiness test, and without
\* the membership test.
validate_license_key_membership_only(license_key) ==
    license_key \in VALID_LICENSE_KEYS

validate_license_key_truthy_only(license_key) == Truthy(license_key)

validate_license_key(license_key) ==
    IF ~Truthy(license_key) THEN FALSE ELSE license_key \in VALID_LICENSE_KEYS

\* ---------------------------------------------------------- the rate limiter

\* rate_limit_check assigns request_counts (line 60) and declares it neither
\* global nor nonlocal: Python compiles every use of the name inside the
\* function as a use of a local variable.
\* Variant: the function declares `global request_counts`.
request_counts_declared_global == FALSE

request_counts_is_local == TRUE

\* {k: v for k, v in request_counts.items() if v['timestamp'] > window_start}
Pruned(rc, window_start) ==
    [k \in {x \in DOMAIN rc : rc[x].timestamp > window_start} |-> rc[k]]

Put(rc, k, v) == [x \in DOMAIN rc \cup {k} |-> IF x = k THEN v ELSE rc[x]]

\* One statement of rate_limit_check, run by a frame f against the dict rc.
\* ret is "-" while the call goes on, else "True", "False" or "raise".
\* Line 60 reads the local name before anything was assigned to it, which
\* raises UnboundLocalError.  Lines 62-74 follow as they are written; they run
\* only where the name denotes the module-level dict.
rate_limit_check_step(f, rc) ==
    LET k == f.license_key
        window_start == f.current_time - RATE_LIMIT_WINDOW
    IN CASE f.pc = "L60" ->
              IF request_counts_is_local
              THEN [pc |-> "L60", rc |-> rc, ret |-> "raise"]
              ELSE [pc |-> "L62", rc |-> Pruned(rc, window_start), ret |-> "-"]
         [] f.pc = "L62" ->
              IF k \notin DOMAIN rc
              THEN [pc |-> "L63", rc |-> rc, ret |-> "-"]
              ELSE [pc |-> "L66", rc |-> rc, ret |-> "-"]
         [] f.pc = "L63" ->
              [pc |-> "L63", ret |-> "True",
               rc |-> Put(rc, k, [count |-> 1, timestamp |-> f.current_time])]
         [] f.pc = "L66" ->
              IF k \notin DOMAIN rc
              THEN [pc |-> "L66", rc |-> rc, ret |-> "raise"]
              ELSE IF rc[k].timestamp < window_start
              THEN [pc |-> "L67", rc |-> rc, ret |-> "-"]
              ELSE [pc |-> "L70", rc |-> rc, ret |-> "-"]
         [] f.pc = "L67" ->
              [pc |-> "L67", ret |-> "True",
               rc |-> Put(rc, k, [count |-> 1, timestamp |-> f.current_time])]
         [] f.pc = "L70" ->
              IF k \notin DOMAIN rc
              THEN [pc |-> "L70", rc |-> rc, ret |-> "raise"]
              ELSE IF rc[k].count >= RATE_LIMIT_REQUESTS
              THEN [pc |-> "L70", rc |-> rc, ret |-> "False"]
              ELSE [pc |-> "L73", rc |-> rc, ret |-> "-"]
         [] OTHER ->
              IF k \notin DOMAIN rc
              THEN [pc |-> "L73", rc |-> rc, ret |-> "raise"]
              ELSE [pc |-> "L73", ret |-> "True",
                    rc |-> Put(rc, k, [rc[k] EXCEPT !.count = @ + 1])]

RateLimitPcs == {"L60", "L62", "L63", "L66", "L67", "L70", "L73"}

\* ------------------------------------------------------ the view functions

\* What a fetch_polygon_* helper (or the inline requests.get of get_losers and
\* of app.py's get_gainers) hands back: requests.get, raise_for_status and
\* response.json() raise on a failure.  "data" is a non-empty payload, "empty"
\* a payload Python treats as false ({} or []), "raised" an exception.
Fetched(o) ==
    CASE o = "ok" -> "data"
      [] o = "ok_empty" -> "empty"
      [] OTHER -> "raised"

\* Variant of the helpers: except Exception -> return [].
fetch_polygon_empty_on_error(o) == IF Fetched(o) = "raised" THEN "empty" ELSE Fetched(o)

\* fetch_polygon_gainers / _historical / _float / _news: except Exception -> None.
fetch_polygon(o) == IF Fetched(o) = "raised" THEN "None" ELSE Fetched(o)

Ok200(payload) == [status |-> 200, body |-> payload]
Err500 == [status |-> 500, body |-> "error"]

\* The body of the view function of route r, with the upstream answering o.
view_function(r, o) ==
    CASE r \in {"gainers", "float", "news", "volume"} ->
              \* if data: ... else: 500
              IF fetch_polygon(o) = "data" THEN Ok200("data") ELSE Err500
      [] r = "historical" ->
              \* if data is not None: ... else: 500
              IF fetch_polygon(o) # "None" THEN Ok200(fetch_polygon(o)) ELSE Err500
      [] r \in {"losers", "app_gainers"} ->
              \* try: requests.get ... return jsonify(data)  except: 500
              IF Fetched(o) # "raised" THEN Ok200(Fetched(o)) ELSE Err500
      [] OTHER -> Ok200("data")

\* The routes whose view function makes an outbound call.
CallsUpstream(r) == r \in ProtectedRoutes

\* ---------------------------------------------------------- require_license

\* decorated_function after validate_license_key returned v: 401, or on to
\* rate_limit_check.
after_validate(v) == IF ~v THEN "401" ELSE "rate_limit_check"

\* Variant of decorated_function: the call of rate_limit_check wrapped in a
\* try/except that lets the request through.
after_rate_limit_fail_open(ret) == IF ret = "False" THEN "429" ELSE "view"

\* decorated_function after rate_limit_check ended with ret: 429 for False,
\* the view function for True; an exception leaves decorated_function and
\* Flask answers 500.
after_rate_limit(ret) ==
    CASE ret = "False" -> "429"
      [] ret = "True" -> "view"
      [] OTHER -> "500"

\* ---------------------------------------------------------------- actions

Init ==
    /\ VALID_LICENSE_KEYS = DefaultKeys
    /\ request_counts = <<>>
    /\ now = 0
    /\ th = [t \in Threads |-> Idle]
    /\ win = [k \in LicenseKeys |-> NoWindow]

\* time.time() moves on.
Tick ==
    /\ now < MaxTime
    /\ now' = now + 1
    /\ UNCHANGED <<VALID_LICENSE_KEYS, request_counts, th, win>>

\* A request for route r arrives with header value k; Flask dispatches it to
\* the function registered for r: decorated_function for a protected route,
\* the view function itself for the others.
Request(t, r, k) ==
    /\ th[t].pc = "idle"
    /\ th' = [th EXCEPT ![t] = [Idle EXCEPT !.route = r, !.license_key = k,
                 !.found = request_counts,
                 !.pc = IF r \in ProtectedRoutes THEN "require_license" ELSE "view"]]
    /\ UNCHANGED <<VALID_LICENSE_KEYS, request_counts, now, win>>

\* The reply; the frame of rate_limit_check is gone by then.
Answer(f, status, body) ==
    [f EXCEPT !.pc = "done", !.status = status, !.body = body, !.current_time = 0]

\* decorated_function, up to the call of rate_limit_check.
ValidateLicense(t) ==
    /\ th[t].pc = "require_license"
    /\ LET v == validate_license_key(th[t].license_key)
           f == [th[t] EXCEPT !.valid = v]
       IN th' = [th EXCEPT ![t] =
                   IF after_validate(v) = "401"
                   THEN Answer(f, 401, "Invalid license key")
                   ELSE [f EXCEPT !.pc = "L56",
                                  !.passed = Append(@, "validate_license_key")]]
    /\ UNCHANGED <<VALID_LICENSE_KEYS, request_counts, now, win>>

\* The observer's window of key k as a call at time `at` finds it: a call later
\* than start + RATE_LIMIT_WINDOW opens the next window.
InWindow(w, at) == w.n > 0 /\ at <= w.start + RATE_LIMIT_WINDOW
MaxInWindow == RATE_LIMIT_REQUESTS + 2

\* rate_limit_check, lines 56-57: current_time = time.time().  The observer
\* numbers the call within the key's window.
RateLimitEnter(t) ==
    /\ th[t].pc = "L56"
    /\ LET k == th[t].license_key
           w == win[k]
           nw == IF InWindow(w, now) THEN [w EXCEPT !.n = @ + 1]
                                     ELSE [start |-> now, n |-> 1, allowed |-> 0]
       IN /\ nw.n <= MaxInWindow
          /\ win' = [win EXCEPT ![k] = nw]
          /\ th' = [th EXCEPT ![t] =
                      [@ EXCEPT !.pc = "L60", !.current_time = now, !.n = nw.n,
                                !.after_exhausted = (~InWindow(w, now)
                                                     /\ w.n >= RATE_LIMIT_REQUESTS)]]
    /\ UNCHANGED <<VALID_LICENSE_KEYS, request_counts, now>>

\* The frame after one more statement of rate_limit_check, and after what
\* decorated_function does with the result if the call ended.
AfterStep(f, s) ==
    CASE s.ret = "-" -> [f EXCEPT !.pc = s.pc]
      [] after_rate_limit(s.ret) = "429" -> Answer(f, 429, "Rate limit exceeded")
      [] after_rate_limit(s.ret) = "view" ->
              [f EXCEPT !.pc = "view",
                        !.passed = IF s.ret = "True"
                                   THEN Append(@, "rate_limit_check") ELSE @]
      [] OTHER -> Answer(f, 500, "error")

\* rate_limit_check, one statement of lines 60-74.  The observer counts a
\* call that returns True in the window it was numbered in.
RateLimitStep(t) ==
    /\ th[t].pc \in RateLimitPcs
    /\ LET s == rate_limit_check_step(th[t], request_counts)
           k == th[t].license_key
       IN /\ request_counts' = s.rc
          /\ th' = [th EXCEPT ![t] = AfterStep(th[t], s)]
          /\ win' = IF s.ret = "True" /\ th[t].current_time >= win[k].start
                    THEN [win EXCEPT ![k].allowed = @ + 1]
                    ELSE win
    /\ UNCHANGED <<VALID_LICENSE_KEYS, now>>

\* The view function: its outbound call, answered o, and its reply.
View(t) ==
    /\ th[t].pc = "view"
    /\ \E o \in UpstreamOutcomes :
         LET r == th[t].route
             a == view_function(r, o)
             f == [th[t] EXCEPT !.handled = TRUE, !.called = CallsUpstream(r),
                                !.upstream = IF CallsUpstream(r) THEN o ELSE "-"]
         IN th' = [th EXCEPT ![t] = Answer(f, a.status, a.body)]
    /\ UNCHANGED <<VALID_LICENSE_KEYS, request_counts, now, win>>

\* The reply is sent and the thread takes the next request.
Finish(t) ==
    /\ th[t].pc = "done"
    /\ th' = [th EXCEPT ![t] = Idle]
    /\ UNCHANGED <<VALID_LICENSE_KEYS, request_counts, now, win>>

\* The server under concurrent load: two threads, requests for one protected
\* and one open route, from two licensed clients and an unlicensed one.
LoadRoutes == {"gainers", "health"}
LoadKeys == {"test-license-123", "prod-license-456", "bad-key"}

Next ==
    \/ Tick
    \/ \E t \in Threads, r \in LoadRoutes, k \in LoadKeys : Request(t, r, k)
    \/ \E t \in Threads : ValidateLicense(t)
    \/ \E t \in Threads : RateLimitEnter(t)
    \/ \E t \in Threads : RateLimitStep(t)
    \/ \E t \in Threads : View(t)
    \/ \E t \in Threads : Finish(t)

Spec == Init /\ [][Next]_vars

\* The server under any configured allow-list, one request at a time, for
\* every route and every header value.
GateInit ==
    /\ VALID_LICENSE_KEYS \in AllowLists
    /\ request_counts = <<>>
    /\ now = 0
    /\ th = [t \in Threads |-> Idle]
    /\ win = [k \in LicenseKeys |-> NoWindow]

GateNext ==
    \/ Tick
    \/ \E r \in Routes, k \in LicenseKeys : Request("t1", r, k)
    \/ ValidateLicense("t1")
    \/ RateLimitEnter("t1")
    \/ RateLimitStep("t1")
    \/ View("t1")
    \/ Finish("t1")

GateSpec == GateInit /\ [][GateNext]_vars

\* The view functions on their own: decorated_function's call f(*args, **kwargs)
\* (line 88) of the view function of a protected route, taken as the start.
Invoke(t, r) ==
    /\ th[t].pc = "idle"
    /\ th' = [th EXCEPT ![t] = [Idle EXCEPT !.route = r, !.pc = "view"]]
    /\ UNCHANGED <<VALID_LICENSE_KEYS, request_counts, now, win>>

ViewNext ==
    \/ \E t \in Threads, r \in ProtectedRoutes : Invoke(t, r)
    \/ \E t \in Threads : View(t)
    \/ \E t \in Threads : Finish(t)

ViewSpec == Init /\ [][ViewNext]_vars

\* ------------------------------------------------------------ properties

Gates == <<"validate_license_key", "rate_limit_check">>
\* The request of frame f went through rate_limit_check (the observer numbered it).
Limited(f) == f.n > 0
\* rate_limit_check returned True for the request of frame f.
Allowed(f) == f.passed = Gates
Done(f) == f.pc = "done"

\* C1: for a valid credential, requests 1..RATE_LIMIT_REQUESTS of one window
\* are not answered 429, and every later request of that window is answered
\* 429 'Rate limit exceeded'.
C1_LimitPerWindow ==
    \A t \in Threads :
        Done(th[t]) /\ Limited(th[t]) =>
            /\ th[t].n <= RATE_LIMIT_REQUESTS => th[t].status # 429
            /\ th[t].n > RATE_LIMIT_REQUESTS =>
                   th[t].status = 429 /\ th[t].body = "Rate limit exceeded"

C3_AllowedAfterWindow ==
    \A t \in Threads :
        Done(th[t]) /\ th[t].after_exhausted => Allowed(th[t])

\* C4: a request for a protected route whose credential is not in the
\* allow-list (a missing or empty header included) gets no further than the
\* license gate and is answered 401 'Invalid license key'.
C4_Unlicensed401 ==
    \A t \in Threads :
        /\ th[t].route \in ProtectedRoutes
        /\ th[t].license_key \notin VALID_LICENSE_KEYS
        => /\ th[t].pc \in {"require_license", "done"}
           /\ Done(th[t]) =>
                  th[t].status = 401 /\ th[t].body = "Invalid license key"

\* C4 witness: a protected route has answered a request without the header.
C4_Witness ==
    \E t \in Threads :
        /\ Done(th[t]) /\ th[t].route = "volume"
        /\ th[t].license_key = None /\ th[t].status = 401

\* C5: the step that runs validate_license_key finds the header valid exactly
\* when it is a non-empty string of the allow-list, and changes nothing but
\* the running request's own frame.
C5_ValidIffListed ==
    [][\A t \in Threads :
          th[t].pc = "require_license" /\ th'[t].pc # "require_license" =>
              /\ th'[t].valid <=> /\ th[t].license_key \notin {None, ""}
                                  /\ th[t].license_key \in VALID_LICENSE_KEYS
              /\ UNCHANGED <<VALID_LICENSE_KEYS, request_counts, now, win>>
              /\ \A u \in Threads \ {t} : th'[u] = th[u]]_vars

\* C5 witness: the allow-list holds the empty string and the empty header was
\* found invalid.
C5_Witness ==
    /\ "" \in VALID_LICENSE_KEYS
    /\ \E t \in Threads :
           Done(th[t]) /\ th[t].license_key = "" /\ ~th[t].valid /\ th[t].status = 401

C7_EveryRouteGated ==
    \A t \in Threads :
        th[t].pc = "view" \/ th[t].handled \/ th[t].called => th[t].passed = Gates

\* C7, amended: the view function of a protected route runs, and an outbound
\* call is made, only for a request that passed validate_license_key and then
\* rate_limit_check; the open routes answer without either and call nothing.
C7_ProtectedRoutesGated ==
    \A t \in Threads :
        /\ th[t].route \in ProtectedRoutes
               /\ (th[t].pc = "view" \/ th[t].handled \/ th[t].called)
           => th[t].passed = Gates
        /\ th[t].route \in OpenRoutes => th[t].passed = <<>> /\ ~th[t].called
        /\ Len(th[t].passed) = 1 => th[t].passed[1] = "validate_license_key"

\* C7 witness: a protected route answered a request that passed the license
\* gate only, without running its view function, and an open route answered
\* from its view function.
C7_Witness ==
    \E t \in Threads :
        /\ Done(th[t]) /\ th[t].route \in ProtectedRoutes
        /\ th[t].passed = <<"validate_license_key">>
        /\ ~th[t].handled /\ ~th[t].called

\* C8: a view function of a protected route answers 500 with an error body
\* whenever its outbound call fails, and answers 200 only with the payload of
\* a call that succeeded.
C8_UpstreamFailure500 ==
    \A t \in Threads :
        Done(th[t]) /\ th[t].route \in ProtectedRoutes /\ th[t].handled =>
            /\ th[t].called
            /\ th[t].upstream \in UpstreamFailures =>
                   th[t].status = 500 /\ th[t].body = "error"
            /\ th[t].status = 200 =>
                   \/ th[t].upstream = "ok" /\ th[t].body = "data"
                   \/ th[t].upstream = "ok_empty" /\ th[t].body = "empty"
            /\ th[t].status \in {200, 500}

\* C8 witness: the upstream answered get_historical's call with a malformed
\* payload.
C8_Witness ==
    \E t \in Threads :
        /\ Done(th[t]) /\ th[t].route = "historical"
        /\ th[t].upstream = "malformed" /\ th[t].status = 500

\* C9: the pruning statement leaves the dict as it is, and rate_limit_check
\* goes on to return True or False.
C9_PruneThenReturn ==
    \A t \in Threads :
        Done(th[t]) /\ Limited(th[t]) =>
            /\ Allowed(th[t]) \/ th[t].status = 429
            /\ \A k \in DOMAIN th[t].found : k \in DOMAIN request_counts

====
